---- MODULE Spec2Model ----
(***************************************************************************)
(* Model of the code generated by lang/macro/src/codegen/dispatch.rs:      *)
(* Storage::dispatch, the entry points main and deploy, run against a      *)
(* contract (function table + constructor) and the environment.            *)
(*                                                                         *)
(* Environment calls (get_call_data, finish, revert, flush) and the        *)
(* invoked contract function are taken to return to their caller.          *)
(***************************************************************************)
EXTENDS Integers, Sequences, FiniteSets, TLC

\* ---------------------------------------------------------------- bounds
MaxFns == 2          \* functions in the contract's function list
MaxData == 1         \* bytes of call data after the selector

Selectors == {1, 2}                 \* selectors of the contract's functions
CallSelectors == Selectors \cup {3} \* selectors a call frame may carry
ArgCounts == {0, 1}                 \* non-receiver parameters of a function
Bytes == {0, 1}
Results == {7, 8}    \* values an invoked non-unit function may return

VARIABLES functions, constructor, entry, pc, storage, callData, idx, args,
          result, ret, events, prev,
          hashVal, hashStr, hashArg, hashOut, hashPc

\* the variables of the dispatch code and those of the Hash value type
dvars == <<functions, constructor, entry, pc, storage, callData, idx, args,
           result, ret, events, prev>>
hvars == <<hashVal, hashStr, hashArg, hashOut, hashPc>>
vars == <<dvars, hvars>>

\* ------------------------------------------------------- data structures
RECURSIVE SeqsUpTo(_, _)
SeqsUpTo(S, n) ==
    IF n = 0 THEN {<<>>}
    ELSE LET shorter == SeqsUpTo(S, n - 1)
         IN  shorter \cup {Append(s, x) : s \in {t \in shorter : Len(t) = n - 1}, x \in S}

\* ir::Function as the generated code sees it: kind, FnSelector::SELECTOR,
\* FnMutability::IS_MUT, whether FnOutput::Output is (), and the number of
\* non-receiver inputs.  An Internal function has no marker type; the
\* selector recorded for it is the one its signature would hash to.
ExternalFns == [kind : {"External"}, selector : Selectors, is_mut : BOOLEAN,
                unit : BOOLEAN, nargs : ArgCounts]
InternalFns == [kind : {"Internal"}, selector : Selectors, is_mut : {FALSE},
                unit : {TRUE}, nargs : {0}]
Function == ExternalFns \cup InternalFns

Contracts == SeqsUpTo(Function, MaxFns)
Constructors == [nargs : ArgCounts]

\* env::CallData { selector, data } or the Err of get_call_data
NoCallData == [ok |-> FALSE, selector |-> 0, data |-> <<>>]
CallDatas == {NoCallData} \cup
             [ok : {TRUE}, selector : CallSelectors, data : SeqsUpTo(Bytes, MaxData)]

\* <Storage as New>::new(): an instance on which nothing has been called
\* and that has not been flushed.
StorageNew == [calls |-> 0, flushes |-> 0]

Event(op, fn, val, msg) == [op |-> op, fn |-> fn, val |-> val, msg |-> msg]

NoPrev == [set |-> FALSE, callData |-> NoCallData, events |-> <<>>]

\* liquid_abi_codec::Decode::decode for a tuple of n one-byte inputs read
\* from the front of data: fails when data is too short, ignores the rest.
Decode(n, data) ==
    IF Len(data) >= n THEN [ok |-> TRUE, val |-> SubSeq(data, 1, n)]
    ELSE [ok |-> FALSE, val |-> <<>>]

\* Variant: a fragment is emitted for every function of the contract.
HasFragment_All(func) == TRUE

\* generate_dispatch_fragment emits code only for External functions.
HasFragment(func) == func.kind = "External"

\* Variant: the fragments are emitted in the reverse of the list's order.
RECURSIVE FragmentsOf_Reversed(_, _)
FragmentsOf_Reversed(fns, i) ==
    IF i > Len(fns) THEN <<>>
    ELSE IF HasFragment(fns[i]) THEN FragmentsOf_Reversed(fns, i + 1) \o <<i>>
    ELSE FragmentsOf_Reversed(fns, i + 1)

\* generate_dispatch: the fragments in the order of contract.functions,
\* as the indices of the functions they were generated from.
RECURSIVE FragmentsOf(_, _)
FragmentsOf(fns, i) ==
    IF i > Len(fns) THEN <<>>
    ELSE IF HasFragment(fns[i]) THEN <<i>> \o FragmentsOf(fns, i + 1)
    ELSE FragmentsOf(fns, i + 1)

Fragments == FragmentsOf(functions, 1)

\* Variant: only the low bit of the selector is compared.
SelectorMatches_LowBit(sel, func) == sel % 2 = func.selector % 2

\* `if selector == <FnMarker as FnSelector>::SELECTOR`
SelectorMatches(sel, func) == sel = func.selector

\* DispatchRetInfo::is_success
IsSuccess(r) == r = "Ok"

\* ------------------------------------------------ primitives: types/hash
\* Strings are sequences of Unicode code points; "0x" is <<48, 120>>.
HASH_LENGTH == 32

Panic == [ok |-> FALSE, val |-> <<>>]
NoHash == Panic

\* str::is_ascii
IsAscii(s) == \A i \in DOMAIN s : s[i] < 128

\* str::len: the length in bytes of the UTF-8 encoding
Utf8Width(c) == IF c < 128 THEN 1 ELSE IF c < 2048 THEN 2 ELSE 3
RECURSIVE StrLen(_)
StrLen(s) == IF s = <<>> THEN 0 ELSE Utf8Width(Head(s)) + StrLen(Tail(s))

\* str::starts_with
StartsWith(s, p) == Len(s) >= Len(p) /\ SubSeq(s, 1, Len(p)) = p

\* char::to_digit(16): -1 stands for None
ToDigit16(c) ==
    IF c >= 48 /\ c <= 57 THEN c - 48
    ELSE IF c >= 97 /\ c <= 102 THEN c - 87
    ELSE IF c >= 65 /\ c <= 70 THEN c - 55
    ELSE -1

\* core::char::from_digit(d, 16) for d < 16
FromDigit16(d) == IF d < 10 THEN 48 + d ELSE 87 + d

\* The loop of From<&str>: bytes[i * 2] and bytes[i * 2 + 1] for i in
\* 0..HASH_LENGTH, each unwrapped; ret[i] = ((high << 4) + low) as u8.
ParseDigits(h) ==
    IF Len(h) < 2 * HASH_LENGTH THEN Panic
    ELSE IF \E k \in 1..(2 * HASH_LENGTH) : ToDigit16(h[k]) = -1 THEN Panic
    ELSE [ok |-> TRUE,
          val |-> [i \in 1..HASH_LENGTH |->
                      (ToDigit16(h[2 * i - 1]) * 16 + ToDigit16(h[2 * i])) % 256]]

\* Variant: the length tests only reject strings that are too short.
FromStr_AtLeast(s) ==
    IF ~IsAscii(s) THEN Panic
    ELSE IF StartsWith(s, <<48, 120>>) \/ StartsWith(s, <<48, 88>>)
         THEN IF StrLen(s) < HASH_LENGTH * 2 + 2 THEN Panic
              ELSE ParseDigits(SubSeq(s, 3, Len(s)))
         ELSE IF StrLen(s) < HASH_LENGTH * 2 THEN Panic
              ELSE ParseDigits(s)

\* impl From<&str> for Hash
FromStr(s) ==
    IF ~IsAscii(s) THEN Panic
    ELSE IF StartsWith(s, <<48, 120>>) \/ StartsWith(s, <<48, 88>>)
         THEN IF StrLen(s) # HASH_LENGTH * 2 + 2 THEN Panic
              ELSE ParseDigits(SubSeq(s, 3, Len(s)))
         ELSE IF StrLen(s) # HASH_LENGTH * 2 THEN Panic
              ELSE ParseDigits(s)

\* Variant: the low nibble is pushed before the high nibble.
to_string_LowFirst(h) ==
    <<48, 120>> \o
    [k \in 1..(2 * Len(h)) |->
        IF k % 2 = 1 THEN FromDigit16(h[(k + 1) \div 2] % 16)
        ELSE FromDigit16(h[k \div 2] \div 16)]

\* impl ToString for Hash: "0x", then per byte high = digit >> 4 and
\* low = digit & 0x0f, in that order.
to_string(h) ==
    <<48, 120>> \o
    [k \in 1..(2 * Len(h)) |->
        IF k % 2 = 1 THEN FromDigit16(h[(k + 1) \div 2] \div 16)
        ELSE FromDigit16(h[k \div 2] % 16)]

\* Hash values the model starts from: the value of tests::test_hash, and a
\* pattern of 32 different bytes with one position set to a sample byte.
TestHash ==
    << 39, 119, 42, 220, 99, 219, 7, 170, 231, 101, 183, 30,
       178, 181, 51, 6, 79, 167, 129, 189, 87, 69, 126, 27,
       19, 133, 146, 216, 25, 141, 9, 89 >>
SampleBytes == {17 * n : n \in 0..15} \cup {9, 10, 15, 16, 154, 169, 240}
HashInputs ==
    {TestHash} \cup
    { [i \in 1..HASH_LENGTH |-> IF i = p THEN v ELSE (7 * i) % 256] :
          p \in 1..HASH_LENGTH, v \in SampleBytes }

\* Strings handed to From<&str>: the digits of a printed hash, left alone,
\* shortened, lengthened or with one character replaced, behind no prefix,
\* "0x" or "0X".
EditChars == {32, 47, 58, 64, 65, 71, 96, 103, 120, 233}
EditPositions == {1, 2, HASH_LENGTH + 1, 2 * HASH_LENGTH}
Prefixes == {<<>>, <<48, 120>>, <<48, 88>>}
DigitEdits(d) ==
    {d, SubSeq(d, 1, Len(d) - 1), SubSeq(d, 1, Len(d) - 2),
     d \o <<48>>, d \o <<48, 48>>} \cup
    { [d EXCEPT ![q] = c] : q \in EditPositions, c \in EditChars }
StrInputs(str) ==
    { p \o d : p \in Prefixes, d \in DigitEdits(SubSeq(str, 3, Len(str))) }

\* ------------------------------------------------------------------ Init
Init ==
    /\ functions \in Contracts
    /\ constructor \in Constructors
    /\ entry = "none"
    /\ pc = "build"
    /\ storage = StorageNew
    /\ callData = NoCallData
    /\ idx = 0
    /\ args = <<>>
    /\ result = <<>>
    /\ ret = "none"
    /\ events = <<>>
    /\ prev = NoPrev
    /\ hashVal = <<>>
    /\ hashStr = <<>>
    /\ hashArg = <<>>
    /\ hashOut = NoHash
    /\ hashPc = "start"

\* ------------------------------------------------- table construction
\* Dispatch::generate_code: the marker types, one set of trait impls per
\* External function (each keyed by the function's own marker
\* FnMarker<[(); fn_id]>, here its position in the list), the dispatch
\* function and the entry points are emitted for the contract as it is.
\* No function's SELECTOR is compared with another's.
GenerateCode ==
    /\ pc = "build"
    /\ pc' = "idle"
    /\ UNCHANGED <<hvars, functions, constructor, entry, storage, callData, idx, args, result, ret, events, prev>>

\* ------------------------------------------------------ call entry: main
\* The environment enters main; main calls Storage::dispatch.
CallMain ==
    /\ pc = "idle"
    /\ entry' = "main"
    /\ pc' = "d_new"
    /\ UNCHANGED <<hvars, functions, constructor, storage, callData, idx, args, result, ret, events, prev>>

\* let mut storage = <Storage as New>::new();
DispatchNew ==
    /\ pc = "d_new"
    /\ storage' = StorageNew
    /\ events' = Append(events, Event("new", 0, <<>>, ""))
    /\ pc' = "d_read"
    /\ UNCHANGED <<hvars, functions, constructor, entry, callData, idx, args, result, ret, prev>>

\* get_call_data(CallMode::Call).map_err(|_| CouldNotReadInput)?
DispatchRead ==
    /\ pc = "d_read"
    /\ \E cd \in CallDatas :
        /\ callData' = cd
        /\ events' = Append(events, Event("read", 0, <<>>, "Call"))
        /\ IF cd.ok
           THEN /\ idx' = 1
                /\ pc' = "d_select"
                /\ ret' = ret
           ELSE /\ idx' = idx
                /\ pc' = "m_ret"
                /\ ret' = "CouldNotReadInput"
    /\ UNCHANGED <<hvars, functions, constructor, entry, storage, args, result, prev>>

\* Variant: a matching fragment calls the function without decoding first.
DispatchSelect_SkipDecode ==
    /\ pc = "d_select"
    /\ idx <= Len(Fragments)
    /\ events' = Append(events, Event("cmp", Fragments[idx], <<>>, ""))
    /\ IF SelectorMatches(callData.selector, functions[Fragments[idx]])
       THEN pc' = "d_invoke" /\ idx' = idx
       ELSE pc' = "d_select" /\ idx' = idx + 1
    /\ UNCHANGED <<hvars, functions, constructor, entry, storage, callData, args, result, ret, prev>>

\* One fragment's `if selector == SELECTOR`: enter it, or fall to the next.
DispatchSelect ==
    /\ pc = "d_select"
    /\ idx <= Len(Fragments)
    /\ events' = Append(events, Event("cmp", Fragments[idx], <<>>, ""))
    /\ IF SelectorMatches(callData.selector, functions[Fragments[idx]])
       THEN pc' = "d_decode" /\ idx' = idx
       ELSE pc' = "d_select" /\ idx' = idx + 1
    /\ UNCHANGED <<hvars, functions, constructor, entry, storage, callData, args, result, ret, prev>>

\* Err(DispatchError::UnknownSelector) after the last fragment
DispatchUnknown ==
    /\ pc = "d_select"
    /\ idx > Len(Fragments)
    /\ ret' = "UnknownSelector"
    /\ pc' = "m_ret"
    /\ UNCHANGED <<hvars, functions, constructor, entry, storage, callData, idx, args, result, events, prev>>

\* Variant: a failed decode is attempted a second time before giving up.
DispatchDecode_RetryOnce ==
    /\ pc = "d_decode"
    /\ LET f == Fragments[idx]
           d == Decode(functions[f].nargs, callData.data)
           seen == Len(SelectSeq(events, LAMBDA e : e.op = "decode"))
       IN  /\ events' = Append(events, Event("decode", f, d.val, IF d.ok THEN "ok" ELSE "err"))
           /\ IF d.ok
              THEN /\ args' = d.val
                   /\ pc' = "d_invoke"
                   /\ ret' = ret
              ELSE IF seen = 0
              THEN /\ args' = args
                   /\ pc' = "d_decode"
                   /\ ret' = ret
              ELSE /\ args' = args
                   /\ pc' = "m_ret"
                   /\ ret' = "InvalidParams"
    /\ UNCHANGED <<hvars, functions, constructor, entry, storage, callData, idx, result, prev>>

\* Variant: the receiver is not skipped, the input shape has one element
\* more than the function has non-receiver parameters.
DispatchDecode_WithReceiver ==
    /\ pc = "d_decode"
    /\ LET f == Fragments[idx]
           d == Decode(functions[f].nargs + 1, callData.data)
       IN  /\ events' = Append(events, Event("decode", f, d.val, IF d.ok THEN "ok" ELSE "err"))
           /\ IF d.ok
              THEN /\ args' = d.val
                   /\ pc' = "d_invoke"
                   /\ ret' = ret
              ELSE /\ args' = args
                   /\ pc' = "m_ret"
                   /\ ret' = "InvalidParams"
    /\ UNCHANGED <<hvars, functions, constructor, entry, storage, callData, idx, result, prev>>

\* Variant: a decode failure falls through to the next fragment instead of
\* returning InvalidParams.
DispatchDecode_TryNext ==
    /\ pc = "d_decode"
    /\ LET f == Fragments[idx]
           d == Decode(functions[f].nargs, callData.data)
       IN  /\ events' = Append(events, Event("decode", f, d.val, IF d.ok THEN "ok" ELSE "err"))
           /\ IF d.ok
              THEN /\ args' = d.val
                   /\ pc' = "d_invoke"
                   /\ idx' = idx
              ELSE /\ args' = args
                   /\ pc' = "d_select"
                   /\ idx' = idx + 1
    /\ UNCHANGED <<hvars, functions, constructor, entry, storage, callData, result, ret, prev>>

\* let pat = <Input as Decode>::decode(&mut data.as_slice()).map_err(|_| InvalidParams)?
DispatchDecode ==
    /\ pc = "d_decode"
    /\ LET f == Fragments[idx]
           d == Decode(functions[f].nargs, callData.data)
       IN  /\ events' = Append(events, Event("decode", f, d.val, IF d.ok THEN "ok" ELSE "err"))
           /\ IF d.ok
              THEN /\ args' = d.val
                   /\ pc' = "d_invoke"
                   /\ ret' = ret
              ELSE /\ args' = args
                   /\ pc' = "m_ret"
                   /\ ret' = "InvalidParams"
    /\ UNCHANGED <<hvars, functions, constructor, entry, storage, callData, idx, result, prev>>

\* let result = storage.fn_name(inputs);
DispatchInvoke ==
    /\ pc = "d_invoke"
    /\ LET f == Fragments[idx]
       IN  /\ events' = Append(events, Event("invoke", f, args, ""))
           /\ \E r \in Results :
                result' = IF functions[f].unit THEN <<>> ELSE <<r>>
    /\ storage' = [storage EXCEPT !.calls = @ + 1]
    /\ pc' = "d_flush"
    /\ UNCHANGED <<hvars, functions, constructor, entry, callData, idx, args, ret, prev>>

\* Variant: the flush is not guarded by IS_MUT.
DispatchFlush_Always ==
    /\ pc = "d_flush"
    /\ storage' = [storage EXCEPT !.flushes = @ + 1]
    /\ events' = Append(events, Event("flush", Fragments[idx], <<>>, ""))
    /\ pc' = "d_finish"
    /\ UNCHANGED <<hvars, functions, constructor, entry, callData, idx, args, result, ret, prev>>

\* if IS_MUT { Flush::flush(&mut storage) }
DispatchFlush ==
    /\ pc = "d_flush"
    /\ IF functions[Fragments[idx]].is_mut
       THEN /\ storage' = [storage EXCEPT !.flushes = @ + 1]
            /\ events' = Append(events, Event("flush", Fragments[idx], <<>>, ""))
       ELSE UNCHANGED <<storage, events>>
    /\ pc' = "d_finish"
    /\ UNCHANGED <<hvars, functions, constructor, entry, callData, idx, args, result, ret, prev>>

\* Variant: the fragment lacks its `return Ok(())` and control falls to the
\* fragments after it.
DispatchFinish_FallThrough ==
    /\ pc = "d_finish"
    /\ IF ~functions[Fragments[idx]].unit
       THEN events' = Append(events, Event("finish", Fragments[idx], result, ""))
       ELSE UNCHANGED events
    /\ idx' = idx + 1
    /\ pc' = "d_select"
    /\ UNCHANGED <<hvars, functions, constructor, entry, storage, callData, args, result, ret, prev>>

\* Variant: finish is not guarded by the output type.
DispatchFinish_Always ==
    /\ pc = "d_finish"
    /\ events' = Append(events, Event("finish", Fragments[idx], result, ""))
    /\ ret' = "Ok"
    /\ pc' = "m_ret"
    /\ UNCHANGED <<hvars, functions, constructor, entry, storage, callData, idx, args, result, prev>>

\* if TypeId::of::<Output>() != TypeId::of::<()>() { finish(&result) }; return Ok(())
DispatchFinish ==
    /\ pc = "d_finish"
    /\ IF ~functions[Fragments[idx]].unit
       THEN events' = Append(events, Event("finish", Fragments[idx], result, ""))
       ELSE UNCHANGED events
    /\ ret' = "Ok"
    /\ pc' = "m_ret"
    /\ UNCHANGED <<hvars, functions, constructor, entry, storage, callData, idx, args, result, prev>>

\* Variant: main reverts whatever dispatch returned.
MainRet_Always ==
    /\ pc = "m_ret"
    /\ events' = Append(events, Event("revert", 0, <<>>, ret))
    /\ pc' = "done"
    /\ UNCHANGED <<hvars, functions, constructor, entry, storage, callData, idx, args, result, ret, prev>>

\* main: if !ret_info.is_success() { revert(&ret_info.get_info_string()) }
MainRet ==
    /\ pc = "m_ret"
    /\ IF ~IsSuccess(ret)
       THEN events' = Append(events, Event("revert", 0, <<>>, ret))
       ELSE UNCHANGED events
    /\ pc' = "done"
    /\ UNCHANGED <<hvars, functions, constructor, entry, storage, callData, idx, args, result, ret, prev>>

\* ------------------------------------------------------------ deploy
CallDeploy ==
    /\ pc = "idle"
    /\ entry' = "deploy"
    /\ pc' = "p_new"
    /\ UNCHANGED <<hvars, functions, constructor, storage, callData, idx, args, result, ret, events, prev>>

\* Variant: deploy works on the storage instance left by the invocation
\* before it.
DeployNew_Reuse ==
    /\ pc = "p_new"
    /\ events' = Append(events, Event("new", 0, <<>>, ""))
    /\ pc' = "p_read"
    /\ UNCHANGED <<hvars, functions, constructor, entry, storage, callData, idx, args, result, ret, prev>>

\* let mut storage = <Storage as New>::new();
DeployNew ==
    /\ pc = "p_new"
    /\ storage' = StorageNew
    /\ events' = Append(events, Event("new", 0, <<>>, ""))
    /\ pc' = "p_read"
    /\ UNCHANGED <<hvars, functions, constructor, entry, callData, idx, args, result, ret, prev>>

\* Variant: the two revert messages of deploy are exchanged.
DeployRead_WrongMessage ==
    /\ pc = "p_read"
    /\ \E cd \in CallDatas :
        /\ callData' = cd
        /\ IF cd.ok
           THEN /\ events' = Append(events, Event("read", 0, <<>>, "Deploy"))
                /\ pc' = "p_decode"
           ELSE /\ events' = events \o <<Event("read", 0, <<>>, "Deploy"),
                                         Event("revert", 0, <<>>, "invalid params")>>
                /\ pc' = "done"
    /\ UNCHANGED <<hvars, functions, constructor, entry, storage, idx, args, result, ret, prev>>

\* get_call_data(CallMode::Deploy); the else branch reverts.
DeployRead ==
    /\ pc = "p_read"
    /\ \E cd \in CallDatas :
        /\ callData' = cd
        /\ IF cd.ok
           THEN /\ events' = Append(events, Event("read", 0, <<>>, "Deploy"))
                /\ pc' = "p_decode"
           ELSE /\ events' = events \o <<Event("read", 0, <<>>, "Deploy"),
                                         Event("revert", 0, <<>>, "could not read input")>>
                /\ pc' = "done"
    /\ UNCHANGED <<hvars, functions, constructor, entry, storage, idx, args, result, ret, prev>>

\* Variant: the decode result is used without looking at its Err.
DeployDecode_Unchecked ==
    /\ pc = "p_decode"
    /\ LET d == Decode(constructor.nargs, callData.data)
       IN  /\ events' = Append(events, Event("decode", 0, d.val, IF d.ok THEN "ok" ELSE "err"))
           /\ args' = d.val
           /\ pc' = "p_invoke"
    /\ UNCHANGED <<hvars, functions, constructor, entry, storage, callData, idx, result, ret, prev>>

\* Variant: the selector bytes are decoded as the front of the data.
DeployDecode_WithSelector ==
    /\ pc = "p_decode"
    /\ LET d == Decode(constructor.nargs, <<callData.selector>> \o callData.data)
       IN  IF d.ok
           THEN /\ events' = Append(events, Event("decode", 0, d.val, "ok"))
                /\ args' = d.val
                /\ pc' = "p_invoke"
           ELSE /\ events' = events \o <<Event("decode", 0, d.val, "err"),
                                         Event("revert", 0, <<>>, "invalid params")>>
                /\ args' = args
                /\ pc' = "done"
    /\ UNCHANGED <<hvars, functions, constructor, entry, storage, callData, idx, result, ret, prev>>

\* <(input_tys,) as Decode>::decode(&mut data.as_slice()); the else branch reverts.
DeployDecode ==
    /\ pc = "p_decode"
    /\ LET d == Decode(constructor.nargs, callData.data)
       IN  IF d.ok
           THEN /\ events' = Append(events, Event("decode", 0, d.val, "ok"))
                /\ args' = d.val
                /\ pc' = "p_invoke"
           ELSE /\ events' = events \o <<Event("decode", 0, d.val, "err"),
                                         Event("revert", 0, <<>>, "invalid params")>>
                /\ args' = args
                /\ pc' = "done"
    /\ UNCHANGED <<hvars, functions, constructor, entry, storage, callData, idx, result, ret, prev>>

\* storage.constructor(inputs);
DeployInvoke ==
    /\ pc = "p_invoke"
    /\ events' = Append(events, Event("invoke", 0, args, ""))
    /\ storage' = [storage EXCEPT !.calls = @ + 1]
    /\ pc' = "p_flush"
    /\ UNCHANGED <<hvars, functions, constructor, entry, callData, idx, args, result, ret, prev>>

\* <Storage as Flush>::flush(&mut storage);
DeployFlush ==
    /\ pc = "p_flush"
    /\ events' = Append(events, Event("flush", 0, <<>>, ""))
    /\ storage' = [storage EXCEPT !.flushes = @ + 1]
    /\ pc' = "done"
    /\ UNCHANGED <<hvars, functions, constructor, entry, callData, idx, args, result, ret, prev>>

\* The entry point returns to the environment: its locals are gone, the
\* storage instance it worked on is left as it was when it was dropped.
EndInvocation ==
    /\ pc' = "idle"
    /\ entry' = "none"
    /\ callData' = NoCallData
    /\ idx' = 0
    /\ args' = <<>>
    /\ result' = <<>>
    /\ ret' = "none"
    /\ events' = <<>>
    /\ UNCHANGED <<hvars, functions, constructor, storage>>

Return ==
    /\ pc = "done"
    /\ EndInvocation
    /\ UNCHANGED prev

\* The same return, observed: the call data and the event sequence of the
\* deploy that ends are kept for comparison with the next deploy.
DeployReturn ==
    /\ pc = "done"
    /\ entry = "deploy"
    /\ EndInvocation
    /\ prev' = [set |-> TRUE, callData |-> callData, events |-> events]

Next ==
    \/ GenerateCode
    \/ CallMain
    \/ DispatchNew
    \/ DispatchRead
    \/ DispatchSelect
    \/ DispatchUnknown
    \/ DispatchDecode
    \/ DispatchInvoke
    \/ DispatchFlush
    \/ DispatchFinish
    \/ MainRet
    \/ CallDeploy
    \/ DeployNew
    \/ DeployRead
    \/ DeployDecode
    \/ DeployInvoke
    \/ DeployFlush
    \/ Return

Spec == Init /\ [][Next]_vars

\* Two or more deploys in a row against one contract (the example contract
\* of the specification: get() -> u32, set(u32)), each compared with the
\* one before it.
ScenarioTable ==
    << [kind |-> "External", selector |-> 1, is_mut |-> FALSE, unit |-> FALSE, nargs |-> 0],
       [kind |-> "External", selector |-> 2, is_mut |-> TRUE, unit |-> TRUE, nargs |-> 1] >>

InitDeploy ==
    /\ functions = ScenarioTable
    /\ constructor \in Constructors
    /\ entry = "none"
    /\ pc = "build"
    /\ storage = StorageNew
    /\ callData = NoCallData
    /\ idx = 0
    /\ args = <<>>
    /\ result = <<>>
    /\ ret = "none"
    /\ events = <<>>
    /\ prev = NoPrev
    /\ hashVal = <<>>
    /\ hashStr = <<>>
    /\ hashArg = <<>>
    /\ hashOut = NoHash
    /\ hashPc = "start"

NextDeploy ==
    \/ GenerateCode
    \/ CallDeploy
    \/ DeployNew
    \/ DeployRead
    \/ DeployDecode
    \/ DeployInvoke
    \/ DeployFlush
    \/ DeployReturn

SpecDeploy == InitDeploy /\ [][NextDeploy]_vars

\* The environment runs an entry point it has entered to its end: every
\* step of the generated code is straight-line code between calls that
\* return, so a step that can be taken is taken.
\* Only the call entry point is exercised here.
NextCall ==
    \/ GenerateCode
    \/ CallMain
    \/ DispatchNew
    \/ DispatchRead
    \/ DispatchSelect
    \/ DispatchUnknown
    \/ DispatchDecode
    \/ DispatchInvoke
    \/ DispatchFlush
    \/ DispatchFinish
    \/ MainRet
    \/ Return

\* dispatch and main do not refer to the constructor: one is enough.
InitLive == Init /\ constructor.nargs = 0

SpecLive == InitLive /\ [][NextCall]_vars /\ WF_vars(NextCall)

\* ------------------------------------------------------- Hash operations
\* impl From<[u8; HASH_LENGTH]> for Hash
HashFromBytes ==
    /\ hashPc = "start"
    /\ \E b \in HashInputs : hashVal' = b
    /\ hashPc' = "hash"
    /\ UNCHANGED <<dvars, hashStr, hashArg, hashOut>>

\* hash.to_string()
HashToString ==
    /\ hashPc = "hash"
    /\ hashStr' = to_string(hashVal)
    /\ hashPc' = "string"
    /\ UNCHANGED <<dvars, hashVal, hashArg, hashOut>>

\* Hash::from(&str), a panic being recorded as the result
HashFromStr ==
    /\ hashPc = "string"
    /\ \E s \in StrInputs(hashStr) :
        /\ hashArg' = s
        /\ hashOut' = FromStr(s)
    /\ hashPc' = "parsed"
    /\ UNCHANGED <<dvars, hashVal, hashStr>>

InitHash ==
    /\ functions = ScenarioTable
    /\ constructor = [nargs |-> 0]
    /\ entry = "none"
    /\ pc = "build"
    /\ storage = StorageNew
    /\ callData = NoCallData
    /\ idx = 0
    /\ args = <<>>
    /\ result = <<>>
    /\ ret = "none"
    /\ events = <<>>
    /\ prev = NoPrev
    /\ hashVal = <<>>
    /\ hashStr = <<>>
    /\ hashArg = <<>>
    /\ hashOut = NoHash
    /\ hashPc = "start"

NextHash ==
    \/ HashFromBytes
    \/ HashToString
    \/ HashFromStr

SpecHash == InitHash /\ [][NextHash]_vars

\* ------------------------------------------------------------ observers
EvOps(op) == SelectSeq(events, LAMBDA e : e.op = op)
Count(op) == Len(EvOps(op))
\* position of the first event `op` in this invocation, 0 if there is none
Pos(op) == IF Count(op) = 0 THEN 0
           ELSE CHOOSE k \in 1..Len(events) :
                    /\ events[k].op = op
                    /\ \A j \in 1..(k - 1) : events[j].op # op

IsExternal(F) == functions[F].kind = "External"
SelectorsDistinct ==
    \A i, j \in DOMAIN functions :
        (i # j /\ IsExternal(i) /\ IsExternal(j))
            => functions[i].selector # functions[j].selector
\* the call frame read by this dispatch carries the selector of External F
Targets(F) ==
    /\ entry = "main"
    /\ callData.ok
    /\ IsExternal(F)
    /\ functions[F].selector = callData.selector
DecodesFor(F) == Decode(functions[F].nargs, callData.data).ok
NoTarget ==
    /\ entry = "main"
    /\ callData.ok
    /\ \A F \in DOMAIN functions : ~Targets(F)
Returned == entry = "main" /\ pc \in {"m_ret", "done"}
\* the function this dispatch has invoked
Dispatched(F) == entry = "main" /\ Count("invoke") > 0 /\ EvOps("invoke")[1].fn = F

\* ---------------------------------------------------------------- claims

\* C1: with pairwise distinct External selectors, a call frame whose
\* selector is that of External F and whose data decodes against F's inputs
\* has F invoked exactly once, no other function invoked at any point of
\* the dispatch, and dispatch returns Ok.
C1_DispatchInvokesExactlyF ==
    \A F \in DOMAIN functions :
        (SelectorsDistinct /\ Targets(F) /\ DecodesFor(F)) =>
            /\ \A k \in DOMAIN events : events[k].op = "invoke" => events[k].fn = F
            /\ Count("invoke") <= 1
            /\ Returned => (ret = "Ok" /\ Count("invoke") = 1)

C1_Witness ==
    /\ Returned /\ ret = "Ok"
    /\ Len(functions) = 2 /\ IsExternal(1) /\ IsExternal(2) /\ SelectorsDistinct
    /\ Targets(2) /\ DecodesFor(2)
    /\ Count("invoke") = 1 /\ EvOps("invoke")[1].fn = 2

\* C2: a call frame whose selector is that of no External function makes
\* dispatch return Err(UnknownSelector) with no function invoked, no decode
\* attempted, no flush and no finish.
C2_UnknownSelector ==
    NoTarget =>
        /\ Count("invoke") = 0
        /\ Count("decode") = 0
        /\ Count("flush") = 0
        /\ Count("finish") = 0
        /\ storage.flushes = 0
        /\ Returned => ret = "UnknownSelector"

C2_Witness ==
    /\ NoTarget /\ Returned /\ ret = "UnknownSelector"
    /\ Len(functions) = 2 /\ IsExternal(1) /\ IsExternal(2)
    /\ Count("cmp") = 2

\* C3: a dispatched function with IS_MUT = false never has storage flushed
\* during the invocation; one with IS_MUT = true has it flushed exactly
\* once, after the invoke and before finish.
C3_MutabilityGating ==
    \A F \in DOMAIN functions :
        Dispatched(F) =>
            /\ ~functions[F].is_mut => (Count("flush") = 0 /\ storage.flushes = 0)
            /\ functions[F].is_mut =>
                /\ Count("flush") <= 1
                /\ Count("flush") = 1 => Pos("invoke") < Pos("flush")
                /\ Count("finish") > 0 =>
                        (Count("flush") = 1 /\ Pos("flush") < Pos("finish"))
                /\ Returned => (Count("flush") = 1 /\ storage.flushes = 1)

C3_Witness ==
    /\ Returned /\ Dispatched(1)
    /\ functions[1].is_mut /\ ~functions[1].unit
    /\ Count("flush") = 1 /\ Count("finish") = 1
    /\ Pos("invoke") < Pos("flush") /\ Pos("flush") < Pos("finish")

\* C4: a successfully dispatched function whose output type is unit never
\* has finish called; one whose output type is not unit has finish called
\* exactly once, with the value the function returned.
C4_UnitSuppression ==
    \A F \in DOMAIN functions :
        Dispatched(F) =>
            /\ functions[F].unit => Count("finish") = 0
            /\ ~functions[F].unit =>
                /\ Count("finish") <= 1
                /\ Count("finish") = 1 => EvOps("finish")[1].val = result
                /\ Returned => (ret = "Ok" /\ Count("finish") = 1)

C4_Witness ==
    /\ Returned /\ ret = "Ok" /\ Dispatched(1)
    /\ ~functions[1].unit
    /\ Count("finish") = 1 /\ EvOps("finish")[1].val = result /\ result # <<>>

\* C5: when the selector matches External F but the data does not decode
\* against F's inputs, dispatch returns Err(InvalidParams) at once: F is not
\* invoked, no later function is compared or invoked, nothing is flushed
\* and finish is not called.
FirstTarget(F) == Targets(F) /\ \A G \in 1..(F - 1) : ~Targets(G)

C5_InvalidParams ==
    \A F \in DOMAIN functions :
        (FirstTarget(F) /\ ~DecodesFor(F)) =>
            /\ Count("invoke") = 0
            /\ Count("flush") = 0
            /\ Count("finish") = 0
            /\ storage.flushes = 0
            /\ \A k \in DOMAIN events :
                    events[k].op \in {"cmp", "decode"} => events[k].fn <= F
            /\ Returned => ret = "InvalidParams"

C5_Witness ==
    /\ Returned /\ ret = "InvalidParams"
    /\ Len(functions) = 2 /\ IsExternal(2)
    /\ FirstTarget(1) /\ ~DecodesFor(1)
    /\ Count("cmp") = 1 /\ Count("decode") = 1

\* C6: when get_call_data fails, call dispatch returns
\* Err(CouldNotReadInput) and deploy reverts with "could not read input";
\* in both, no selector comparison, decode, invocation, flush or finish
\* happens in that invocation.
ReadFailed == Count("read") = 1 /\ ~callData.ok

C6_ReadFailure ==
    ReadFailed =>
        /\ Count("cmp") = 0
        /\ Count("decode") = 0
        /\ Count("invoke") = 0
        /\ Count("flush") = 0
        /\ Count("finish") = 0
        /\ storage = StorageNew
        /\ entry = "main" => (Returned /\ ret = "CouldNotReadInput")
        /\ entry = "deploy" =>
            /\ pc = "done"
            /\ EvOps("revert") = <<Event("revert", 0, <<>>, "could not read input")>>

C6_Witness ==
    /\ ReadFailed /\ entry = "main" /\ pc = "done"
    /\ ret = "CouldNotReadInput" /\ Len(functions) = 2

\* C7: main calls revert exactly once if and only if dispatch returned a
\* failure; when dispatch succeeds main never reverts and the invocation
\* ends with one finish (non-unit result) or with none (unit result).
C7_MainRevert ==
    entry = "main" =>
        /\ pc # "done" => Count("revert") = 0
        /\ pc = "done" =>
            /\ ret \in {"Ok", "CouldNotReadInput", "UnknownSelector", "InvalidParams"}
            /\ ret # "Ok" => Count("revert") = 1
            /\ ret = "Ok" =>
                /\ Count("revert") = 0
                /\ Count("invoke") = 1
                /\ Count("finish") =
                       IF functions[EvOps("invoke")[1].fn].unit THEN 0 ELSE 1
                /\ Count("finish") = 1 => events[Len(events)].op = "finish"

C7_Witness ==
    /\ entry = "main" /\ pc = "done"
    /\ ret = "InvalidParams" /\ Count("revert") = 1
    /\ events[Len(events)].op = "revert"

\* C8: when deploy reads call data that does not decode against the
\* constructor's inputs, it reverts with "invalid params", the constructor
\* is not invoked and storage is not flushed.
DeployMalformed ==
    /\ entry = "deploy"
    /\ callData.ok
    /\ ~Decode(constructor.nargs, callData.data).ok

C8_DeployInvalidParams ==
    DeployMalformed =>
        /\ Count("invoke") = 0
        /\ Count("flush") = 0
        /\ storage = StorageNew
        /\ pc \in {"p_decode", "done"}
        /\ pc = "done" =>
               EvOps("revert") = <<Event("revert", 0, <<>>, "invalid params")>>

C8_Witness ==
    /\ DeployMalformed /\ pc = "done"
    /\ Count("decode") = 1 /\ Count("revert") = 1

\* C9: when deploy reads call data that decodes against the constructor's
\* inputs, the constructor is invoked exactly once on the storage instance
\* created in that invocation, storage is then flushed exactly once, and
\* neither finish nor revert is called.
DeployWellFormed ==
    /\ entry = "deploy"
    /\ callData.ok
    /\ Decode(constructor.nargs, callData.data).ok

C9_DeploySuccess ==
    DeployWellFormed =>
        /\ Count("finish") = 0
        /\ Count("revert") = 0
        /\ pc = "done" =>
            /\ events = << Event("new", 0, <<>>, ""),
                            Event("read", 0, <<>>, "Deploy"),
                            Event("decode", 0, args, "ok"),
                            Event("invoke", 0, args, ""),
                            Event("flush", 0, <<>>, "") >>
            /\ args = SubSeq(callData.data, 1, constructor.nargs)
            /\ storage = [calls |-> 1, flushes |-> 1]

C9_Witness ==
    /\ DeployWellFormed /\ pc = "done"
    /\ constructor.nargs = 1 /\ args = <<1>>
    /\ Count("invoke") = 1 /\ Count("flush") = 1

\* C10: two deploys whose call data has the same data bytes and different
\* selector fields produce the same sequence of events (decode outcome,
\* constructor invocation and arguments, flush or revert), and deploy makes
\* no selector comparison.
SameDataOtherSelector ==
    /\ entry = "deploy" /\ pc = "done"
    /\ prev.set
    /\ prev.callData.ok /\ callData.ok
    /\ prev.callData.data = callData.data
    /\ prev.callData.selector # callData.selector

C10_DeployIgnoresSelector ==
    /\ entry = "deploy" => Count("cmp") = 0
    /\ SameDataOtherSelector => events = prev.events

C10_Witness ==
    /\ SameDataOtherSelector
    /\ constructor.nargs = 1 /\ callData.data = <<1>>
    /\ Count("invoke") = 1 /\ EvOps("invoke")[1].val = <<1>>
    /\ events = prev.events

\* C11: call dispatch never invokes the Constructor (marker index 0) and
\* never invokes a function of kind Internal, whatever the selector and the
\* data; the Constructor is invoked only by deploy.
C11_OnlyExternalInvoked ==
    \A k \in DOMAIN events :
        events[k].op \in {"cmp", "decode", "invoke"} =>
            /\ entry = "main" =>
                   (events[k].fn \in DOMAIN functions /\ IsExternal(events[k].fn))
            /\ events[k].fn = 0 => entry = "deploy"

C11_Witness ==
    /\ Returned /\ ret = "Ok"
    /\ Len(functions) = 2 /\ ~IsExternal(1) /\ IsExternal(2)
    /\ functions[1].selector = callData.selector
    /\ functions[2].selector = callData.selector
    /\ Count("invoke") = 1 /\ EvOps("invoke")[1].fn = 2

\* C12: building the dispatch table of a contract in which two External
\* functions have the same selector fails, so the generated entry points
\* never exist, and dispatch never runs, for such a table.
C12_CollisionRejectedAtConstruction ==
    pc # "build" => SelectorsDistinct

\* C13: for an External function, and for the constructor, with no
\* non-receiver parameter the decode succeeds for every data value, empty or
\* not, and yields no argument: the function is invoked with no arguments
\* and InvalidParams (for deploy: the "invalid params" revert) never occurs.
C13_ZeroArgDecode ==
    /\ \A F \in DOMAIN functions :
           (FirstTarget(F) /\ functions[F].nargs = 0) =>
               /\ ret # "InvalidParams"
               /\ \A k \in DOMAIN events :
                      events[k].op = "decode" =>
                          (events[k].msg = "ok" /\ events[k].val = <<>>)
               /\ \A k \in DOMAIN events :
                      events[k].op = "invoke" => events[k].val = <<>>
               /\ Returned => (ret = "Ok" /\ Count("invoke") = 1)
    /\ (entry = "deploy" /\ callData.ok /\ constructor.nargs = 0) =>
           /\ Count("revert") = 0
           /\ \A k \in DOMAIN events :
                  events[k].op \in {"decode", "invoke"} => events[k].val = <<>>
           /\ pc = "done" => Count("invoke") = 1

C13_Witness ==
    /\ Returned /\ ret = "Ok"
    /\ FirstTarget(1) /\ functions[1].nargs = 0
    /\ callData.data # <<>>
    /\ Count("invoke") = 1 /\ EvOps("invoke")[1].val = <<>>

\* C14: for a 32-byte value b, Hash::from(b).to_string() is "0x" followed
\* by the 64 lowercase hex digits of b in order, high nibble first, and
\* parsing that string with From<&str>, with its "0x", with "0X" instead or
\* with no prefix, yields a Hash equal to Hash::from(b).
LowerHex == <<48, 49, 50, 51, 52, 53, 54, 55, 56, 57, 97, 98, 99, 100, 101, 102>>
HexOf(b) ==
    [k \in 1..(2 * Len(b)) |->
        IF k % 2 = 1 THEN LowerHex[(b[(k + 1) \div 2] \div 16) + 1]
        ELSE LowerHex[(b[k \div 2] % 16) + 1]]
PrintedForms(b) == {<<48, 120>> \o HexOf(b), <<48, 88>> \o HexOf(b), HexOf(b)}

C14_HashHexRoundTrip ==
    /\ hashPc \in {"string", "parsed"} =>
        /\ Len(hashStr) = 2 * HASH_LENGTH + 2
        /\ hashStr = <<48, 120>> \o HexOf(hashVal)
    /\ (hashPc = "parsed" /\ hashArg \in PrintedForms(hashVal)) =>
        hashOut = [ok |-> TRUE, val |-> hashVal]

C14_Witness ==
    /\ hashPc = "parsed"
    /\ hashVal = TestHash
    /\ hashArg = HexOf(TestHash)
    /\ hashStr = <<48, 120>> \o hashArg
    /\ hashOut = [ok |-> TRUE, val |-> TestHash]

\* C15: Hash::from(&str) panics for every string that is not ASCII, that
\* starts with "0x" or "0X" and is not 66 long, that has no such prefix and
\* is not 64 long, or that has a non-hexadecimal character after the
\* prefix; a 64-character string that begins with "0x" never yields a Hash.
IsHexChar(c) == c \in (48..57) \cup (65..70) \cup (97..102)
HasPrefix(s) ==
    Len(s) >= 2 /\ s[1] = 48 /\ s[2] \in {120, 88}
InvalidRepr(s) ==
    \/ \E i \in DOMAIN s : s[i] > 127
    \/ HasPrefix(s) /\ Len(s) # 66
    \/ ~HasPrefix(s) /\ Len(s) # 64
    \/ \E i \in DOMAIN s : (HasPrefix(s) => i > 2) /\ ~IsHexChar(s[i])

C15_InvalidHashRejected ==
    (hashPc = "parsed" /\ InvalidRepr(hashArg)) => ~hashOut.ok

C15_Witness ==
    /\ hashPc = "parsed"
    /\ Len(hashArg) = 64 /\ hashArg[1] = 48 /\ hashArg[2] = 120
    /\ \A i \in 3..64 : IsHexChar(hashArg[i])
    /\ ~hashOut.ok

\* C16: in a run of Storage::dispatch the events occur only in the order
\* read, selector match, decode, invoke, flush, finish, each at most once
\* (unsuccessful selector comparisons may precede the match): no decode
\* before a selector match, no invoke before a successful decode, no flush
\* or finish before the invoke.
Rank(op) ==
    CASE op = "new" -> 0
      [] op = "read" -> 1
      [] op = "cmp" -> 2
      [] op = "decode" -> 3
      [] op = "invoke" -> 4
      [] op = "flush" -> 5
      [] op = "finish" -> 6
      [] op = "revert" -> 7
IsMatch(e) == e.op = "cmp" /\ functions[e.fn].selector = callData.selector

C16_DispatchOrder ==
    entry = "main" =>
        /\ \A i, j \in DOMAIN events :
               i < j =>
                   /\ Rank(events[i].op) <= Rank(events[j].op)
                   /\ Rank(events[i].op) = Rank(events[j].op) =>
                          (events[i].op = "cmp" /\ ~IsMatch(events[i]))
        /\ \A k \in DOMAIN events :
               /\ events[k].op = "cmp" => (k > 1 /\ events[k - 1].op \in {"read", "cmp"})
               /\ events[k].op = "decode" =>
                      (k > 1 /\ IsMatch(events[k - 1]) /\ events[k - 1].fn = events[k].fn)
               /\ events[k].op = "invoke" =>
                      /\ k > 1
                      /\ events[k - 1].op = "decode"
                      /\ events[k - 1].msg = "ok"
                      /\ events[k - 1].fn = events[k].fn
                      /\ events[k - 1].val = events[k].val
               /\ events[k].op \in {"flush", "finish"} =>
                      \E j \in 1..(k - 1) : events[j].op = "invoke" /\ events[j].fn = events[k].fn

C16_Witness ==
    /\ Returned /\ ret = "Ok"
    /\ [k \in DOMAIN events |-> events[k].op] =
           <<"new", "read", "cmp", "cmp", "decode", "invoke", "flush", "finish">>

\* C17: dispatch compares the call selector with the External functions in
\* the order of the contract's function list and handles the call with the
\* first one whose selector is equal; when two External functions have the
\* same selector only the earlier one is ever decoded against and invoked.
\* the position in the function list of the k-th External function
NthExternal(k) ==
    CHOOSE i \in DOMAIN functions :
        IsExternal(i) /\ Cardinality({j \in 1..i : IsExternal(j)}) = k

C17_FirstMatchInOrder ==
    entry = "main" =>
        /\ \A k \in 1..Count("cmp") : EvOps("cmp")[k].fn = NthExternal(k)
        /\ \A k \in DOMAIN events :
               events[k].op \in {"decode", "invoke"} => FirstTarget(events[k].fn)
        /\ \A F \in DOMAIN functions :
               (Returned /\ FirstTarget(F)) =>
                   (Count("decode") = 1 /\ EvOps("decode")[1].fn = F)

C17_Witness ==
    /\ Returned /\ ret = "Ok"
    /\ Len(functions) = 2 /\ IsExternal(1) /\ IsExternal(2)
    /\ functions[1].selector = functions[2].selector
    /\ functions[1] # functions[2]
    /\ Targets(1) /\ Targets(2)
    /\ Count("cmp") = 1
    /\ Count("invoke") = 1 /\ EvOps("invoke")[1].fn = 1

\* C18: once the matched function or the constructor has been invoked the
\* entry point produces no failure: a revert of main or deploy is never
\* preceded in the same invocation by an invocation, a flush or a finish,
\* and finish and revert never both occur in one invocation.
C18_FailuresBeforeInvocation ==
    /\ Count("revert") <= 1
    /\ Count("revert") > 0 =>
           (Count("invoke") = 0 /\ Count("flush") = 0 /\ Count("finish") = 0)
    /\ Count("invoke") > 0 =>
           ret \notin {"CouldNotReadInput", "UnknownSelector", "InvalidParams"}
    /\ (pc = "done" /\ Count("invoke") = 0) => Count("revert") = 1

C18_Witness ==
    /\ entry = "main" /\ pc = "done"
    /\ Count("invoke") = 1 /\ Count("flush") = 1 /\ Count("finish") = 1
    /\ Count("revert") = 0 /\ ret = "Ok"

\* C19: for every function table and every call-data outcome, a started
\* Storage::dispatch eventually returns exactly one of Ok,
\* Err(CouldNotReadInput), Err(UnknownSelector) and Err(InvalidParams), and
\* no step (read, a fragment's comparison, decode, invoke, flush, finish) is
\* taken twice on the way.
Outcomes == {"Ok", "CouldNotReadInput", "UnknownSelector", "InvalidParams"}
InDispatch ==
    entry = "main" /\
    pc \in {"d_new", "d_read", "d_select", "d_decode", "d_invoke", "d_flush", "d_finish"}
NoRetry ==
    /\ \A op \in {"new", "read", "decode", "invoke", "flush", "finish"} : Count(op) <= 1
    /\ \A i, j \in 1..Count("cmp") :
           i # j => EvOps("cmp")[i].fn # EvOps("cmp")[j].fn

C19_DispatchTerminates ==
    /\ [](entry = "main" => NoRetry)
    /\ [](InDispatch => ret = "none")
    /\ [](Returned => ret \in Outcomes)
    /\ InDispatch ~> (Returned /\ ret \in Outcomes)

C19_Witness ==
    /\ entry = "main" /\ pc = "m_ret"
    /\ ret = "InvalidParams"
    /\ Count("cmp") = 2 /\ Count("decode") = 1 /\ Count("invoke") = 0

TypeOK ==
    /\ functions \in Contracts
    /\ constructor \in Constructors
    /\ callData \in CallDatas
    /\ entry \in {"none", "main", "deploy"}
    /\ ret \in {"none", "Ok", "CouldNotReadInput", "UnknownSelector", "InvalidParams"}
====
